---- MODULE Spec2Model ----
(***************************************************************************)
(* The ledger of the poultry weighing application: providers, their sales  *)
(* and the Full / Empty / Mortality entries of every sale, as kept in the   *)
(* React state of App (src/src/App.tsx; src/App.tsx holds the same handlers)*)
(* together with the metric computation calculateSaleMetrics.              *)
(*                                                                         *)
(* Representation.                                                         *)
(*  - A weight is an integer number of tenths of a kilogram (2.5 kg = 25). *)
(*  - A quotient of the code (emptyWeight / emptyCount, netWeight /        *)
(*    totalBirds) is an exact fraction [n, d]; IEEE rounding of the        *)
(*    JavaScript doubles is not modelled.  d = 0 stands for a division by   *)
(*    zero.                                                                *)
(*  - now is the last value Date.now() returned (0: not read yet).  The     *)
(*    clock counts whole milliseconds, so a read returns the value of the   *)
(*    read before it or a later one: nothing forces the clock to advance    *)
(*    between two handlers.                                                *)
(*  - An id is the clock value it was made from (Date.now().toString());   *)
(*    0 stands for null.                                                   *)
(*  - Fields that no handler reads (name, clientName, createdAt,           *)
(*    timestamp, logo, isActive) are left out of the records.              *)
(*  - scaleChar is the characteristic of the connected scale and the text  *)
(*    of the payload it holds, a sequence of one-character strings;        *)
(*    scaleRead is what the last readScaleWeight returned.  A number of    *)
(*    the device and form layer is [kind, n, d]: the fraction n / d, NaN   *)
(*    or Infinity.                                                         *)
(*  - stored is the item 'polloControl_providers' of localStorage: absent, *)
(*    or the document JSON.stringify wrote.                                *)
(*  - A ticket is a sequence of pieces: a control character (ESC, GS, SOH, *)
(*    NUL, LF), a single letter of a command, or a run of printable text   *)
(*    that holds no control character.  writes holds the byte streams      *)
(*    given to writeValue of the printer whose promise is not settled.     *)
(*  - pending is the handler of the Leer Balanza button between its await  *)
(*    and its continuation: the weight read and the state its closure      *)
(*    holds.  In the specification of the panels the entries hold weights   *)
(*    in kilograms and counts as numbers [kind, n, d], as parseFloat and   *)
(*    the scale give them.                                                 *)
(*  - uncaught tells whether a rejection of a device or of JSON.parse has  *)
(*    left its handler as an exception.  boot is the position of the       *)
(*    startup: the first render, the effects run, the render that follows. *)
(*    sw is the service worker: the names of the caches, the requests      *)
(*    CACHE_NAME holds and what the last fetch event was answered with.    *)
(***************************************************************************)
EXTENDS Integers, Sequences, FiniteSets, TLC

VARIABLES providers, selectedProviderId, currentSaleId, view, now, stored,
          lastOp, undo,
          scaleDevice, scaleChar, scaleRead,
          printerType, printerDevice, printerChar,
          ticketModalOpen, ticketContent, writes,
          pending, uncaught, boot, sw

\* The state of the Bluetooth scale and of the printer with its preview,
\* which no handler of the ledger touches.
scaleVars == <<scaleDevice, scaleChar, scaleRead>>
printVars == <<printerType, printerDevice, printerChar,
               ticketModalOpen, ticketContent, writes>>
startVars == <<boot, sw>>
deviceVars == <<scaleVars, printVars, pending, uncaught, startVars>>

\* The state of the ledger and of the screen, and the two observers.
ledgerVars == <<providers, selectedProviderId, currentSaleId, view, now, stored>>
obsVars == <<lastOp, undo>>

vars == <<ledgerVars, obsVars, deviceVars>>

(* ------------------------------ bounds -------------------------------- *)

\* Largest value the clock is read at.
MaxTime == 2
\* Objects (providers, sales and entries together) the ledger may hold when
\* a handler creates another one.
MaxObjects == 4

\* Inputs of the forms.
Stocks == {2}
ChickensPerCrate == {1}
Targets == {1, 2}
Types == {"FULL", "EMPTY", "MORTALITY"}
\* Weights typed into the panels, in tenths of a kilogram: a batch of full
\* crates, a batch of empty crates, dead birds.
Weights(type) ==
    IF type = "FULL" THEN {20, 90} ELSE IF type = "EMPTY" THEN {20} ELSE {10}
Counts == {1, 2}

NULL == 0

\* The fixed tare per crate used when no empty crate was weighed: 2.5 kg.
DefaultTare == 25

(* ------------------------------ helpers ------------------------------- *)

\* Array.prototype.filter with the test e.id !== id.
RECURSIVE FilterOutId(_, _)
FilterOutId(seq, id) ==
    IF seq = <<>> THEN <<>>
    ELSE IF Head(seq).id # id
         THEN <<Head(seq)>> \o FilterOutId(Tail(seq), id)
         ELSE FilterOutId(Tail(seq), id)

\* Array.prototype.find with the test x.id === id: the index of the first
\* match, 0 when there is none (undefined).
RECURSIVE FindFrom(_, _, _)
FindFrom(seq, id, i) ==
    IF i > Len(seq) THEN 0
    ELSE IF seq[i].id = id THEN i
    ELSE FindFrom(seq, id, i + 1)

find(seq, id) == FindFrom(seq, id, 1)

\* reduce((sum, c) => sum + c.crateCount, 0)
RECURSIVE SumCrateCount(_)
SumCrateCount(seq) ==
    IF seq = <<>> THEN 0 ELSE Head(seq).crateCount + SumCrateCount(Tail(seq))

\* reduce((a, b) => a + b.count, 0)
RECURSIVE SumCount(_)
SumCount(seq) ==
    IF seq = <<>> THEN 0 ELSE Head(seq).count + SumCount(Tail(seq))

\* reduce((a, b) => a + b.weight, 0)
RECURSIVE SumWeight(_)
SumWeight(seq) ==
    IF seq = <<>> THEN 0 ELSE Head(seq).weight + SumWeight(Tail(seq))

\* currentSales.reduce((acc, s) => acc + s.fullCrates.reduce(...), 0)
RECURSIVE TotalSoldGlobal(_)
TotalSoldGlobal(sales) ==
    IF sales = <<>> THEN 0
    ELSE SumCrateCount(Head(sales).fullCrates) + TotalSoldGlobal(Tail(sales))

\* Exact fractions for the quotients of the code.
Rat(n, d) == [n |-> n, d |-> d]
RatMulInt(i, r) == [n |-> i * r.n, d |-> r.d]
RatSub(r, s) == [n |-> r.n * s.d - s.n * r.d, d |-> r.d * s.d]
RatDivInt(r, i) == [n |-> r.n, d |-> r.d * i]
\* A slip that forgets the clamp at zero.
RatUnclamped(r) == r
\* Math.max(0, r)
RatMax0(r) == IF r.n * r.d > 0 THEN r ELSE Rat(0, 1)
RatEq(r, s) == r.n * s.d = s.n * r.d

(* --------------------------- derived state ---------------------------- *)

\* const currentProvider = providers.find(p => p.id === selectedProviderId)
currentProviderIdx == find(providers, selectedProviderId)

\* const currentSales = currentProvider?.sales || []
currentSales ==
    IF currentProviderIdx = 0 THEN <<>> ELSE providers[currentProviderIdx].sales

\* setProviders(prev => prev.map(p => p.id === providerId ? {...p, sales} : p))
handleUpdateProviderSales(provs, providerId, updatedSales) ==
    [i \in DOMAIN provs |->
        IF provs[i].id = providerId
        THEN [provs[i] EXCEPT !.sales = updatedSales]
        ELSE provs[i]]

\* Size of the ledger, for the bound MaxObjects.
RECURSIVE CountEntries(_)
CountEntries(sales) ==
    IF sales = <<>> THEN 0
    ELSE 1 + Len(Head(sales).fullCrates) + Len(Head(sales).emptyCrates)
         + Len(Head(sales).mortality) + CountEntries(Tail(sales))

RECURSIVE CountObjects(_)
CountObjects(provs) ==
    IF provs = <<>> THEN 0
    ELSE 1 + CountEntries(Head(provs).sales) + CountObjects(Tail(provs))

\* The values a call of Date.now() may return.
ClockReads == {t \in {now, now + 1} : t >= 1 /\ t <= MaxTime}

(* ----------------------------- metrics -------------------------------- *)

\* A slip in the guard of the tare: >= lets the quotient run on no empty crate.
AvgTareGuardedByGeq(emptyWeight, emptyCount) ==
    IF emptyCount >= 0 THEN Rat(emptyWeight, emptyCount) ELSE Rat(DefaultTare, 1)

\* emptyCount > 0 ? emptyWeight / emptyCount : 2.5
AvgTare(emptyWeight, emptyCount) ==
    IF emptyCount > 0 THEN Rat(emptyWeight, emptyCount) ELSE Rat(DefaultTare, 1)

\* A slip in the guard of the bird average: it excludes zero only.
AvgWeightPerBirdGuardedByNonZero(netWeight, totalBirds) ==
    IF totalBirds # 0 THEN RatDivInt(netWeight, totalBirds) ELSE Rat(0, 1)

\* totalBirds > 0 ? netWeight / totalBirds : 0
AvgWeightPerBird(netWeight, totalBirds) ==
    IF totalBirds > 0 THEN RatDivInt(netWeight, totalBirds) ELSE Rat(0, 1)

calculateSaleMetrics(sale, chickensPerCrate) ==
    LET fullWeight == SumWeight(sale.fullCrates)
        fullCount == SumCrateCount(sale.fullCrates)
        emptyWeight == SumWeight(sale.emptyCrates)
        emptyCount == SumCrateCount(sale.emptyCrates)
        deadCount == SumCount(sale.mortality)
        deadWeight == SumWeight(sale.mortality)
        avgTare == AvgTare(emptyWeight, emptyCount)
        totalTare == RatMulInt(fullCount, avgTare)
        netWeight == RatMax0(RatSub(RatSub(Rat(fullWeight, 1), totalTare),
                                    Rat(deadWeight, 1)))
        totalBirds == (fullCount * chickensPerCrate) - deadCount
        avgWeightPerBird == AvgWeightPerBird(netWeight, totalBirds)
    IN [fullWeight |-> fullWeight, fullCount |-> fullCount,
        emptyWeight |-> emptyWeight, emptyCount |-> emptyCount,
        avgTare |-> avgTare, totalTare |-> totalTare,
        deadCount |-> deadCount, deadWeight |-> deadWeight,
        netWeight |-> netWeight, totalBirds |-> totalBirds,
        avgWeightPerBird |-> avgWeightPerBird]

(* ------------------------ numbers of JavaScript ------------------------ *)

\* A number as parseFloat and Math.random give it: a fraction, NaN or
\* Infinity.
Num(n, d) == [kind |-> "num", n |-> n, d |-> d]
NaN == [kind |-> "nan", n |-> 0, d |-> 0]
Infinity == [kind |-> "inf", n |-> 1, d |-> 0]

isNaN(x) == x.kind = "nan"
\* x > 0
IsPositive(x) == x.kind = "inf" \/ (x.kind = "num" /\ x.n > 0)
\* if (x): NaN and 0 are falsy.
Truthy(x) == x.kind = "inf" \/ (x.kind = "num" /\ x.n # 0)

\* Decimal digits a double can hold before its value is Infinity: a run of
\* more digits (leading zeros aside) is above Number.MAX_VALUE, 1.79e308.
MaxDoubleDigits == 309

DigitChars == {"0", "1", "2", "3", "4", "5", "6", "7", "8", "9"}

DigitValue(c) ==
    CASE c = "0" -> 0 [] c = "1" -> 1 [] c = "2" -> 2 [] c = "3" -> 3
      [] c = "4" -> 4 [] c = "5" -> 5 [] c = "6" -> 6 [] c = "7" -> 7
      [] c = "8" -> 8 [] c = "9" -> 9

RECURSIVE Pow10(_)
Pow10(k) == IF k = 0 THEN 1 ELSE 10 * Pow10(k - 1)

\* The index after the run of digits of text that starts at i (i itself when
\* text[i] is no digit).
DigitRunEnd(text, i) ==
    IF \E j \in i..Len(text) : text[j] \notin DigitChars
    THEN CHOOSE j \in i..Len(text) :
            /\ text[j] \notin DigitChars
            /\ \A m \in i..(j - 1) : text[m] \in DigitChars
    ELSE Len(text) + 1

\* The index of the first digit of text at or after i, 0 when there is none.
FirstDigit(text, i) ==
    IF \E j \in i..Len(text) : text[j] \in DigitChars
    THEN CHOOSE j \in i..Len(text) :
            /\ text[j] \in DigitChars
            /\ \A m \in i..(j - 1) : text[m] \notin DigitChars
    ELSE 0

\* The index of the first digit other than "0" of text in i..j-1, j when
\* there is none.
SkipZeros(text, i, j) ==
    CHOOSE k \in i..j :
        /\ \A m \in i..(k - 1) : text[m] = "0"
        /\ k = j \/ text[k] # "0"

\* The value of the digits text[i..j-1], an empty run counting 0.
RECURSIVE DigitsValue(_, _, _)
DigitsValue(text, i, j) ==
    IF i >= j THEN 0
    ELSE 10 * DigitsValue(text, i, j - 1) + DigitValue(text[j - 1])

\* parseFloat: the longest prefix of text that is a decimal literal (a sign,
\* digits, a point, digits), NaN when there is none.  Leading blanks,
\* exponents and the word Infinity are outside the texts modelled.
parseFloat(text) ==
    LET signed == Len(text) >= 1 /\ text[1] \in {"-", "+"}
        i == IF signed THEN 2 ELSE 1
        j == DigitRunEnd(text, i)
        point == j <= Len(text) /\ text[j] = "."
        k == IF point THEN DigitRunEnd(text, j + 1) ELSE j
        fracLen == IF point THEN k - (j + 1) ELSE 0
        intLen == j - SkipZeros(text, i, j)
        magnitude == DigitsValue(text, i, j) * Pow10(fracLen)
                        + (IF point THEN DigitsValue(text, j + 1, k) ELSE 0)
    IN IF j = i /\ fracLen = 0 THEN NaN
       ELSE IF intLen > MaxDoubleDigits THEN Infinity
       ELSE Num(IF signed /\ text[1] = "-" THEN -magnitude ELSE magnitude,
                Pow10(fracLen))

\* Number.prototype.toFixed(2) read back by parseFloat: x rounded to
\* hundredths, a tie going up (x is a fraction >= 0).
ToFixed2Unrounded(x) == x
ToFixed2(x) == Num((2 * 100 * x.n + x.d) \div (2 * x.d), 100)

(* ------------------------------- scale -------------------------------- *)

\* Longest payload a notification of the scale delivers, in characters.
MaxPayloadLen == 3

PayloadChars == {"-", ".", "0", "2", "5", "k"}

\* A run of digits too long for a double.
LongPayload == [i \in 1..(MaxDoubleDigits + 1) |-> "9"]

\* The payload of the example of the specification: -5.2
SignedPayload == <<"-", "5", ".", "2">>

Payloads ==
    UNION {[1..n -> PayloadChars] : n \in 0..MaxPayloadLen}
        \cup {LongPayload, SignedPayload}

\* Values of Math.random(), which lie in [0, 1).
RandomValues == {Num(0, 1), Num(12345, 100000), Num(1, 2), Num(99999, 100000)}

\* scaleChar: null, a characteristic without a value yet, one with a payload.
NoChar == [char |-> FALSE, hasValue |-> FALSE, text |-> <<>>]
CharWithoutValue == [char |-> TRUE, hasValue |-> FALSE, text |-> <<>>]
CharWith(text) == [char |-> TRUE, hasValue |-> TRUE, text |-> text]

NoRead == [done |-> FALSE, result |-> NaN]

\* text.match(/[\d]+(\.[\d]+)?/): the leftmost run of digits, with the point
\* and the digits after it when a point and a digit follow; <<>> stands for
\* null.
RegexMatch(text) ==
    LET i == FirstDigit(text, 1)
        j == DigitRunEnd(text, i)
        fraction == j + 1 <= Len(text) /\ text[j] = "."
                       /\ text[j + 1] \in DigitChars
        k == IF fraction THEN DigitRunEnd(text, j + 1) ELSE j
    IN IF i = 0 THEN <<>> ELSE SubSeq(text, i, k - 1)

\* Math.random() * 20 + 10
Simulated(random) == Num(20 * random.n + 10 * random.d, random.d)

readScaleWeight(char, random) ==
    IF char.char /\ char.hasValue /\ RegexMatch(char.text) # <<>>
    THEN parseFloat(RegexMatch(char.text))
    ELSE ToFixed2(Simulated(random))

\* No handler of the scale button waits for its continuation.
NoPending == [active |-> FALSE]

\* try { ... } catch: the rejection of what the block awaits ends in its
\* catch, and nothing leaves the handler.
NoCatch(rejected) == rejected
TryCatch(rejected) == FALSE

\* The application has started: its first effects have run.
Running == [phase |-> "running"]
\* No service worker is installed.
NoWorker == [installed |-> FALSE]

DeviceInit ==
    /\ scaleDevice = "none"
    /\ scaleChar = NoChar
    /\ scaleRead = NoRead
    /\ printerType = "BLUETOOTH"
    /\ printerDevice = "none"
    /\ printerChar = 0
    /\ ticketModalOpen = FALSE
    /\ ticketContent = <<>>
    /\ writes = <<>>
    /\ pending = NoPending
    /\ uncaught = FALSE
    /\ boot = Running
    /\ sw = NoWorker

(* ---------------------------- persistence ---------------------------- *)

\* localStorage.getItem returns null: nothing was ever written.
NoItem == [present |-> FALSE]

\* JSON.stringify(providers), field by field: the numbers, strings and
\* booleans of the records are written as they are.
JSONstringifyEntry(e) ==
    IF "crateCount" \in DOMAIN e
    THEN [id |-> e.id, weight |-> e.weight, crateCount |-> e.crateCount]
    ELSE [id |-> e.id, weight |-> e.weight, count |-> e.count]

JSONstringifySale(sale) ==
    [id |-> sale.id, targetFullCrates |-> sale.targetFullCrates,
     fullCrates |-> [k \in DOMAIN sale.fullCrates |->
                        JSONstringifyEntry(sale.fullCrates[k])],
     emptyCrates |-> [k \in DOMAIN sale.emptyCrates |->
                        JSONstringifyEntry(sale.emptyCrates[k])],
     mortality |-> [k \in DOMAIN sale.mortality |->
                        JSONstringifyEntry(sale.mortality[k])],
     isCompleted |-> sale.isCompleted]

JSONstringify(provs) ==
    [i \in DOMAIN provs |->
        [id |-> provs[i].id, initialFullCrates |-> provs[i].initialFullCrates,
         chickensPerCrate |-> provs[i].chickensPerCrate,
         sales |-> [j \in DOMAIN provs[i].sales |->
                       JSONstringifySale(provs[i].sales[j])]]]

\* JSON.parse of a document JSON.stringify wrote gives the arrays and
\* objects of the document.
JSONparse(doc) == doc

\* An effect that writes whatever collection the render has.
PersistEffectWithoutGuard(provs, item) ==
    [present |-> TRUE, value |-> JSONstringify(provs)]

\* useEffect(..., [providers]): runs after each render that follows a change
\* of providers, and writes only a collection that is not empty.
PersistEffect(provs, item) ==
    IF Len(provs) > 0
    THEN [present |-> TRUE, value |-> JSONstringify(provs)]
    ELSE item

Persist ==
    stored' = IF providers' # providers
              THEN PersistEffect(providers', stored)
              ELSE stored

\* The collection the load effect puts into providers at startup.
LoadProviders(item) ==
    IF item.present THEN JSONparse(item.value) ELSE <<>>

(* ------------------------------- init --------------------------------- *)

\* Two variables observe the handlers without taking part in them.  lastOp
\* records whether the handler that ran last was addWeight, deleteEntry or
\* another one, and the alert it raised.  undo records,
\* after an accepted add, its type, the id of its entry and the ledger as it
\* was before (state "added"); when the next handler is the deleteEntry of
\* that type and id, undo keeps the ledger of before (state "deleted");
\* every other handler clears it.
Op(name) == [op |-> name, alert |-> "none"]
NoUndo == [state |-> "none"]

Init ==
    /\ providers = <<>>
    /\ selectedProviderId = NULL
    /\ currentSaleId = NULL
    /\ view = "MENU"
    /\ now = 0
    /\ stored = NoItem
    /\ lastOp = Op("init")
    /\ undo = NoUndo
    /\ DeviceInit

(* ------------------------------ actions ------------------------------- *)

\* Header logo / menu button: setView(AppView.MENU).
GoMenu ==
    /\ view # "MENU"
    /\ view' = "MENU"
    /\ lastOp' = Op("other")
    /\ undo' = NoUndo
    /\ UNCHANGED <<providers, stored, selectedProviderId, currentSaleId, now>>
    /\ UNCHANGED deviceVars

\* Main menu card: setView(AppView.PROVIDERS).
GoProviders ==
    /\ view = "MENU"
    /\ view' = "PROVIDERS"
    /\ lastOp' = Op("other")
    /\ undo' = NoUndo
    /\ UNCHANGED <<providers, stored, selectedProviderId, currentSaleId, now>>
    /\ UNCHANGED deviceVars

\* Provider card: setSelectedProviderId(provider.id); setView(DASHBOARD).
SelectProvider ==
    /\ view = "PROVIDERS"
    /\ \E i \in DOMAIN providers :
          selectedProviderId' = providers[i].id
    /\ view' = "DASHBOARD"
    /\ lastOp' = Op("other")
    /\ undo' = NoUndo
    /\ UNCHANGED <<providers, stored, currentSaleId, now>>
    /\ UNCHANGED deviceVars

\* Dashboard "Volver": setView(AppView.PROVIDERS).
BackToProviders ==
    /\ view = "DASHBOARD"
    /\ view' = "PROVIDERS"
    /\ lastOp' = Op("other")
    /\ undo' = NoUndo
    /\ UNCHANGED <<providers, stored, selectedProviderId, currentSaleId, now>>
    /\ UNCHANGED deviceVars

\* Sale card: setCurrentSaleId(sale.id); setView(SALE_DETAIL).
OpenSale ==
    /\ view = "DASHBOARD"
    /\ \E i \in DOMAIN currentSales :
          currentSaleId' = currentSales[i].id
    /\ view' = "SALE_DETAIL"
    /\ lastOp' = Op("other")
    /\ undo' = NoUndo
    /\ UNCHANGED <<providers, stored, selectedProviderId, now>>
    /\ UNCHANGED deviceVars

\* Sale detail "Volver": setView(AppView.DASHBOARD).
BackToDashboard ==
    /\ view = "SALE_DETAIL"
    /\ view' = "DASHBOARD"
    /\ lastOp' = Op("other")
    /\ undo' = NoUndo
    /\ UNCHANGED <<providers, stored, selectedProviderId, currentSaleId, now>>
    /\ UNCHANGED deviceVars

NewProvider(id, initialFullCrates, chickensPerCrate) ==
    [id |-> id, initialFullCrates |-> initialFullCrates,
     chickensPerCrate |-> chickensPerCrate, sales |-> <<>>]

handleCreateProvider ==
    /\ view = "PROVIDERS"
    /\ CountObjects(providers) < MaxObjects
    /\ \E stock \in Stocks, cpc \in ChickensPerCrate, t \in ClockReads :
          /\ providers' = Append(providers, NewProvider(t, stock, cpc))
          /\ now' = t
    /\ lastOp' = Op("other")
    /\ undo' = NoUndo
    /\ UNCHANGED <<selectedProviderId, currentSaleId, view>>
    /\ UNCHANGED deviceVars
    /\ Persist

\* window.confirm may be answered either way.
handleDeleteProvider ==
    /\ view = "PROVIDERS"
    /\ \E i \in DOMAIN providers, confirmed \in BOOLEAN :
          providers' = IF confirmed THEN FilterOutId(providers, providers[i].id)
                       ELSE providers
    /\ lastOp' = Op("other")
    /\ undo' = NoUndo
    /\ UNCHANGED <<selectedProviderId, currentSaleId, view, now>>
    /\ UNCHANGED deviceVars
    /\ Persist

NewSale(id, limit) ==
    [id |-> id, targetFullCrates |-> limit, fullCrates |-> <<>>,
     emptyCrates |-> <<>>, mortality |-> <<>>, isCompleted |-> FALSE]

handleCreateSale ==
    /\ view = "DASHBOARD"
    /\ currentProviderIdx # 0
    /\ CountObjects(providers) < MaxObjects
    /\ \E limit \in Targets, t \in ClockReads :
          /\ providers' = handleUpdateProviderSales(providers, selectedProviderId,
                              Append(currentSales, NewSale(t, limit)))
          /\ currentSaleId' = t
          /\ now' = t
    /\ view' = "SALE_DETAIL"
    /\ lastOp' = Op("other")
    /\ undo' = NoUndo
    /\ UNCHANGED <<selectedProviderId>>
    /\ UNCHANGED deviceVars
    /\ Persist

\* Called from a sale card of the dashboard, and (src/App.tsx) from the
\* detail view for the sale it shows.
handleDeleteSale ==
    /\ currentProviderIdx # 0
    /\ \E i \in DOMAIN currentSales, confirmed \in BOOLEAN :
          LET saleId == currentSales[i].id IN
          /\ \/ view = "DASHBOARD"
             \/ view = "SALE_DETAIL" /\ i = find(currentSales, currentSaleId)
          /\ IF confirmed
             THEN /\ providers' = handleUpdateProviderSales(providers,
                                      selectedProviderId,
                                      FilterOutId(currentSales, saleId))
                  /\ IF currentSaleId = saleId
                     THEN view' = "DASHBOARD" /\ currentSaleId' = NULL
                     ELSE UNCHANGED <<view, currentSaleId>>
             ELSE UNCHANGED <<providers, view, currentSaleId>>
    /\ lastOp' = Op("other")
    /\ undo' = NoUndo
    /\ UNCHANGED <<selectedProviderId, now>>
    /\ UNCHANGED deviceVars
    /\ Persist

\* The sale renderSaleDetail shows: currentSales.find(s => s.id === currentSaleId).
currentSaleIdx == find(currentSales, currentSaleId)

\* renderSaleDetail renders the panels and buttons that call toggleSaleLock,
\* addWeight and deleteEntry.
SaleDetailShown ==
    /\ view = "SALE_DETAIL"
    /\ currentSaleId # NULL
    /\ currentProviderIdx # 0
    /\ currentSaleIdx # 0

ToggledSales(sales, saleId) ==
    [i \in DOMAIN sales |->
        IF sales[i].id = saleId
        THEN [sales[i] EXCEPT !.isCompleted = ~sales[i].isCompleted]
        ELSE sales[i]]

toggleSaleLock ==
    /\ SaleDetailShown
    /\ providers' = handleUpdateProviderSales(providers, selectedProviderId,
                        ToggledSales(currentSales, currentSales[currentSaleIdx].id))
    /\ lastOp' = Op("other")
    /\ undo' = NoUndo
    /\ UNCHANGED <<selectedProviderId, currentSaleId, view, now>>
    /\ UNCHANGED deviceVars
    /\ Persist

\* A slip that tests Mortality against the birds of the full crates.
AddAlertWithMortalityCheck(type, count) ==
    LET currentSale == currentSales[currentSaleIdx]
        currentProvider == providers[currentProviderIdx]
        currentClientCount == SumCrateCount(currentSale.fullCrates)
        totalEmptyCrates == SumCrateCount(currentSale.emptyCrates)
    IN IF type = "MORTALITY" /\ SumCount(currentSale.mortality) + count
                                   > currentClientCount * currentProvider.chickensPerCrate
       THEN "MortalityExceedsBirds"
       ELSE IF type = "FULL" /\ TotalSoldGlobal(currentSales) + count
                              > currentProvider.initialFullCrates
       THEN "StockExceeded"
       ELSE IF type = "FULL" /\ currentClientCount + count
                                   > currentSale.targetFullCrates
       THEN "ClientLimitExceeded"
       ELSE IF type = "EMPTY" /\ totalEmptyCrates + count > currentClientCount
       THEN "EmptyExceedsFull"
       ELSE "none"

\* The alert addWeight raises for (type, count), "none" when every check passes.
AddAlert(type, count) ==
    LET currentSale == currentSales[currentSaleIdx]
        currentProvider == providers[currentProviderIdx]
        currentClientCount == SumCrateCount(currentSale.fullCrates)
        totalEmptyCrates == SumCrateCount(currentSale.emptyCrates)
    IN IF type = "FULL" /\ TotalSoldGlobal(currentSales) + count
                              > currentProvider.initialFullCrates
       THEN "StockExceeded"
       ELSE IF type = "FULL" /\ currentClientCount + count
                                   > currentSale.targetFullCrates
       THEN "ClientLimitExceeded"
       ELSE IF type = "EMPTY" /\ totalEmptyCrates + count > currentClientCount
       THEN "EmptyExceedsFull"
       ELSE "none"

\* A slip that drops the isCompleted test of the map of addWeight.
SalesWithEntryIgnoringLock(sales, saleId, type, entryId, weight, count) ==
    [i \in DOMAIN sales |->
        IF sales[i].id = saleId
        THEN IF type = "FULL"
             THEN [sales[i] EXCEPT !.fullCrates =
                     Append(@, [id |-> entryId, weight |-> weight, crateCount |-> count])]
             ELSE IF type = "EMPTY"
             THEN [sales[i] EXCEPT !.emptyCrates =
                     Append(@, [id |-> entryId, weight |-> weight, crateCount |-> count])]
             ELSE [sales[i] EXCEPT !.mortality =
                     Append(@, [id |-> entryId, weight |-> weight, count |-> count])]
        ELSE sales[i]]

\* currentSales.map(sale => sale.id === currentSaleId ? ... : sale) of addWeight.
SalesWithEntry(sales, saleId, type, entryId, weight, count) ==
    [i \in DOMAIN sales |->
        IF sales[i].id = saleId
        THEN IF sales[i].isCompleted THEN sales[i]
             ELSE IF type = "FULL"
             THEN [sales[i] EXCEPT !.fullCrates =
                     Append(@, [id |-> entryId, weight |-> weight, crateCount |-> count])]
             ELSE IF type = "EMPTY"
             THEN [sales[i] EXCEPT !.emptyCrates =
                     Append(@, [id |-> entryId, weight |-> weight, crateCount |-> count])]
             ELSE [sales[i] EXCEPT !.mortality =
                     Append(@, [id |-> entryId, weight |-> weight, count |-> count])]
        ELSE sales[i]]

\* The handler is taken with every argument the two callers can pass: the
\* panel forms (any type, weight and count) and the scale button.
addWeight ==
    /\ SaleDetailShown
    /\ CountObjects(providers) < MaxObjects
    /\ \E type \in Types, count \in Counts : \E weight \in Weights(type) :
          LET alert == AddAlert(type, count) IN
          IF alert # "none"
          THEN /\ lastOp' = [op |-> "addWeight", alert |-> alert]
               /\ undo' = NoUndo
               /\ UNCHANGED <<providers, now>>
          ELSE \E t \in ClockReads :
               /\ providers' = handleUpdateProviderSales(providers, selectedProviderId,
                      SalesWithEntry(currentSales, currentSaleId, type, t, weight, count))
               /\ now' = t
               /\ lastOp' = [op |-> "addWeight", alert |-> "none"]
               /\ undo' = IF providers' # providers
                          THEN [state |-> "added", type |-> type, id |-> t,
                                before |-> providers]
                          ELSE NoUndo
    /\ UNCHANGED <<selectedProviderId, currentSaleId, view>>
    /\ UNCHANGED deviceVars
    /\ Persist

\* currentSales.map(sale => sale.id === currentSaleId ? ... : sale) of deleteEntry.
SalesWithoutEntry(sales, saleId, type, id) ==
    [i \in DOMAIN sales |->
        IF sales[i].id = saleId
        THEN IF sales[i].isCompleted THEN sales[i]
             ELSE IF type = "FULL"
             THEN [sales[i] EXCEPT !.fullCrates = FilterOutId(@, id)]
             ELSE IF type = "EMPTY"
             THEN [sales[i] EXCEPT !.emptyCrates = FilterOutId(@, id)]
             ELSE [sales[i] EXCEPT !.mortality = FilterOutId(@, id)]
        ELSE sales[i]]

\* The entries the panel of the given type lists for the sale shown.
PanelEntries(type) ==
    LET sale == currentSales[currentSaleIdx]
    IN IF type = "FULL" THEN sale.fullCrates
       ELSE IF type = "EMPTY" THEN sale.emptyCrates
       ELSE sale.mortality

\* The handler is taken with the id of any entry the panel lists.
\* deleteEntry(type, id) for the entries the panel of type lists.
deleteEntryOf(type) ==
    /\ SaleDetailShown
    /\ \E k \in DOMAIN PanelEntries(type) :
          LET id == PanelEntries(type)[k].id IN
          /\ providers' = handleUpdateProviderSales(providers, selectedProviderId,
                              SalesWithoutEntry(currentSales, currentSaleId, type, id))
          /\ undo' = IF undo.state = "added" /\ undo.type = type /\ undo.id = id
                     THEN [state |-> "deleted", before |-> undo.before]
                     ELSE NoUndo
    /\ lastOp' = Op("deleteEntry")
    /\ UNCHANGED <<selectedProviderId, currentSaleId, view, now>>
    /\ UNCHANGED deviceVars
    /\ Persist

deleteEntry == \E type \in Types : deleteEntryOf(type)

Next ==
    \/ GoMenu
    \/ GoProviders
    \/ SelectProvider
    \/ BackToProviders
    \/ OpenSale
    \/ BackToDashboard
    \/ handleCreateProvider
    \/ handleDeleteProvider
    \/ handleCreateSale
    \/ handleDeleteSale
    \/ toggleSaleLock
    \/ addWeight
    \/ deleteEntry

Spec == Init /\ [][Next]_vars

(* ------------------------------ reports ------------------------------- *)

RatAdd(r, s) == [n |-> r.n * s.d + s.n * r.d, d |-> r.d * s.d]

\* currentSales.reduce((acc, sale) => ..., { fc:0, fw:0, ... }) over the first
\* k sales.
RECURSIVE SummaryTotals(_, _, _)
SummaryTotals(sales, chickensPerCrate, k) ==
    IF k = 0
    THEN [fc |-> 0, fw |-> 0, ec |-> 0, tt |-> Rat(0, 1), dc |-> 0, dw |-> 0,
          nw |-> Rat(0, 1), birds |-> 0]
    ELSE LET acc == SummaryTotals(sales, chickensPerCrate, k - 1)
             m == calculateSaleMetrics(sales[k], chickensPerCrate)
         IN [fc |-> acc.fc + m.fullCount,
             fw |-> acc.fw + m.fullWeight,
             ec |-> acc.ec + m.emptyCount,
             tt |-> RatAdd(acc.tt, m.totalTare),
             dc |-> acc.dc + m.deadCount,
             dw |-> acc.dw + m.deadWeight,
             nw |-> RatAdd(acc.nw, m.netWeight),
             birds |-> acc.birds + m.totalBirds]

\* The figures generateProviderSummary prints for the provider selected.
generateProviderSummary ==
    LET currentProvider == providers[currentProviderIdx]
        totals == SummaryTotals(currentSales, currentProvider.chickensPerCrate,
                                Len(currentSales))
    IN [totalVentas |-> Len(currentSales),
        stockInicial |-> currentProvider.initialFullCrates,
        jabasVendidas |-> totals.fc,
        stockActual |-> currentProvider.initialFullCrates - totals.fc,
        pesoBruto |-> totals.fw,
        taraTotal |-> totals.tt,
        muertos |-> totals.dc,
        pesoMuertos |-> totals.dw,
        netoTotal |-> totals.nw,
        promedioPollo |-> AvgWeightPerBird(totals.nw, totals.birds)]

(* --------------------- the scale, on the detail view ------------------- *)

\* The ledger after a first provider and a first sale were created: the
\* detail view shows the sale, which is open and empty.
DetailInit ==
    /\ providers = <<[id |-> 1, initialFullCrates |-> 2, chickensPerCrate |-> 1,
                      sales |-> <<NewSale(1, 2)>>]>>
    /\ selectedProviderId = 1
    /\ currentSaleId = 1
    /\ view = "SALE_DETAIL"
    /\ now = 1
    /\ stored = [present |-> TRUE, value |-> JSONstringify(providers)]
    /\ lastOp = Op("other")
    /\ undo = NoUndo
    /\ DeviceInit

\* connectScale: the browser pairs the scale and gives its characteristic,
\* or fails, and then the handler sets the simulated device only.
connectScale ==
    /\ \E paired \in BOOLEAN :
          /\ IF paired
             THEN /\ scaleChar' = CharWithoutValue
                  /\ scaleDevice' = "real"
                  /\ scaleRead' = NoRead
             ELSE /\ scaleDevice' = "simulated"
                  /\ UNCHANGED <<scaleChar, scaleRead>>
          /\ uncaught' = TryCatch(~paired)
    /\ UNCHANGED <<ledgerVars, obsVars, printVars, pending, startVars>>

\* A notification of the scale: the characteristic holds the new payload.
ScaleNotify ==
    /\ scaleChar.char
    /\ \E text \in Payloads : scaleChar' = CharWith(text)
    /\ scaleRead' = NoRead
    /\ UNCHANGED <<scaleDevice, ledgerVars, obsVars, printVars, pending, uncaught, startVars>>

\* The weight display of the detail view: const w = await readScaleWeight().
ReadScale ==
    /\ SaleDetailShown
    /\ \E random \in RandomValues :
          scaleRead' = [done |-> TRUE, result |-> readScaleWeight(scaleChar, random)]
    /\ UNCHANGED <<scaleDevice, scaleChar, ledgerVars, obsVars, printVars, pending, uncaught, startVars>>

NextRead ==
    \/ connectScale
    \/ ScaleNotify
    \/ ReadScale

SpecRead == DetailInit /\ [][NextRead]_vars

(* ------------------------------ tickets ------------------------------- *)

\* The control characters '\x1b', '\x1d', '\x01', '\x00' and '\n'.
ESC == "ESC"
GS == "GS"
SOH == "SOH"
NUL == "NUL"
LF == "LF"
ControlChars == {ESC, GS, SOH, NUL}

\* COMMANDS
INIT == <<ESC, "@">>
BOLD_ON == <<ESC, "E", SOH>>
BOLD_OFF == <<ESC, "E", NUL>>
CENTER == <<ESC, "a", SOH>>
LEFT == <<ESC, "a", NUL>>
CUT == <<GS, "V", "A", NUL>>

\* The line of dashes of a ticket, and the text a template literal makes of
\* a number; the names and dates, which the ledger of the model does not
\* keep, are one piece of text each.
Rule == "--------------------------------"
Text(v) == ToString(v)

\* generateTicket(sale, provider)
generateTicket(sale, provider) ==
    LET m == calculateSaleMetrics(sale, provider.chickensPerCrate) IN
    <<LF>> \o CENTER \o <<"POLLO CONTROL PRO", LF,
      "PROVEEDOR: ", "provider.name", LF,
      Rule, LF,
      "CLIENTE: ", "sale.clientName", LF,
      "FECHA: ", "date", LF,
      IF sale.isCompleted THEN "(VENTA CERRADA)" ELSE "(PENDIENTE)", LF,
      Rule, LF>>
    \o LEFT \o <<LF,
      "Jabas Solicitadas: ", Text(sale.targetFullCrates), LF,
      "Jabas Llenas:      ", Text(m.fullCount), LF,
      "Peso Bruto:        ", Text(m.fullWeight), " kg", LF,
      "Jabas Vacias:      ", Text(m.emptyCount), LF,
      "Tara (Prom):       ", Text(m.totalTare), " kg", LF,
      "Muertos:           ", Text(m.deadCount), " und", LF,
      "Peso Muertos:      ", Text(m.deadWeight), " kg", LF,
      Rule, LF>>
    \o BOLD_ON \o <<"PESO NETO:      ", Text(m.netWeight), " kg">> \o BOLD_OFF
    \o <<LF,
      "Prom. Pollo:       ", Text(m.avgWeightPerBird), " kg", LF,
      Rule, LF>>

\* The text generateProviderSummary returns.
ProviderSummaryText ==
    IF currentProviderIdx = 0 THEN <<>>
    ELSE
    LET s == generateProviderSummary IN
    <<LF>> \o CENTER \o <<"RESUMEN DE PROVEEDOR", LF,
      "currentProvider.name", LF,
      "date", LF,
      Rule, LF>>
    \o LEFT \o <<LF,
      "Total Ventas:   ", Text(s.totalVentas), LF,
      "Stock Inicial:  ", Text(s.stockInicial), " Jabas", LF,
      "Jabas Vendidas: ", Text(s.jabasVendidas), LF,
      "Stock Actual:   ", Text(s.stockActual), LF,
      Rule, LF,
      "Peso Bruto Tot: ", Text(s.pesoBruto), " kg", LF,
      "Tara Total:     ", Text(s.taraTotal), " kg", LF,
      "Muertos Total:  ", Text(s.muertos), " u / ", Text(s.pesoMuertos), " kg", LF,
      Rule, LF>>
    \o BOLD_ON \o <<"NETO TOTAL:     ", Text(s.netoTotal), " kg">> \o BOLD_OFF
    \o <<LF,
      "PROMEDIO POLLO: ", Text(s.promedioPollo), " kg", LF,
      Rule, LF>>

\* ticketContent.replace(/\x1b/g, '').replace(/\x1d/g, '')
Preview(text) == SelectSeq(text, LAMBDA c : c # ESC /\ c # GS)

\* TextEncoder.encode: the byte of a control character or of a command
\* letter, in hexadecimal; a run of printable text stands for its own bytes.
Byte(c) ==
    CASE c = ESC -> "1B" [] c = GS -> "1D" [] c = SOH -> "01" [] c = NUL -> "00"
      [] c = LF -> "0A" [] c = "@" -> "40" [] c = "E" -> "45" [] c = "a" -> "61"
      [] c = "V" -> "56" [] c = "A" -> "41" [] OTHER -> c
encode(text) == [i \in DOMAIN text |-> Byte(text[i])]

\* encoder.encode(COMMANDS.INIT + text + '\n\n\n' + COMMANDS.CUT)
Stream(text) == encode(INIT \o text \o <<LF, LF, LF>> \o CUT)

(* ----------------------- the printer and its preview ------------------- *)

\* Characteristics the printer is given while the application runs, and
\* writes that can be unsettled together.
MaxConnections == 2
MaxWrites == 2

PrinterTypes == {"BLUETOOTH", "WIFI"}

\* The preview covers the screen: the buttons under it take no click.
NoModal == ~ticketModalOpen

\* saveConfig({ printerType })
saveConfig ==
    /\ NoModal
    /\ \E t \in PrinterTypes : printerType' = t
    /\ UNCHANGED <<printerDevice, printerChar, ticketModalOpen, ticketContent, writes>>
    /\ UNCHANGED <<ledgerVars, obsVars, scaleVars, pending, uncaught, startVars>>

\* connectPrinter: the k-th pairing gives the k-th characteristic; a failure
\* sets the device to null and leaves the characteristic.
connectPrinter ==
    /\ NoModal
    /\ \E paired \in BOOLEAN :
          /\ IF paired
             THEN /\ printerChar < MaxConnections
                  /\ printerDevice' = "real"
                  /\ printerChar' = printerChar + 1
             ELSE /\ printerDevice' = "none"
                  /\ UNCHANGED printerChar
          /\ uncaught' = TryCatch(~paired)
    /\ UNCHANGED <<printerType, ticketModalOpen, ticketContent, writes>>
    /\ UNCHANGED <<ledgerVars, obsVars, scaleVars, pending, startVars>>

\* openTicketPreview(text)
openTicketPreview(text) ==
    /\ ticketContent' = text
    /\ ticketModalOpen' = TRUE
    /\ UNCHANGED <<printerType, printerDevice, printerChar, writes>>
    /\ UNCHANGED <<ledgerVars, obsVars, scaleVars, pending, uncaught, startVars>>

\* Imprimir Ticket of the detail view.
PreviewTicket ==
    /\ NoModal
    /\ SaleDetailShown
    /\ openTicketPreview(generateTicket(currentSales[currentSaleIdx],
                                        providers[currentProviderIdx]))

\* Imprimir Resumen of the report of the day.
PreviewSummary ==
    /\ NoModal
    /\ view = "SUMMARY"
    /\ openTicketPreview(ProviderSummaryText)

\* Cancelar and the cross of the preview.
CancelPreview ==
    /\ ticketModalOpen
    /\ ticketModalOpen' = FALSE
    /\ UNCHANGED <<printerType, printerDevice, printerChar, ticketContent, writes>>
    /\ UNCHANGED <<ledgerVars, obsVars, scaleVars, pending, uncaught, startVars>>

\* handlePrintAction up to its await: writeValue is called with the stream.
WritesAfter(text) == Append(writes, [char |-> printerChar, data |-> Stream(text)])

\* Imprimir of the preview: handlePrintAction(ticketContent), which is not
\* awaited, and setTicketModalOpen(false).  With WIFI the text goes to a
\* window of the browser; with no printer connected an alert is all.
Imprimir ==
    /\ ticketModalOpen
    /\ ticketModalOpen' = FALSE
    /\ IF printerType # "WIFI" /\ printerDevice # "none" /\ printerChar # 0
       THEN /\ Len(writes) < MaxWrites
            /\ writes' = WritesAfter(ticketContent)
       ELSE UNCHANGED writes
    /\ UNCHANGED <<printerType, printerDevice, printerChar, ticketContent>>
    /\ UNCHANGED <<ledgerVars, obsVars, scaleVars, pending, uncaught, startVars>>

\* The promise of a writeValue settles, resolved or rejected: the alert of
\* the success or of the failure is all that handlePrintAction does then.
WriteSettles ==
    /\ \E i \in DOMAIN writes, rejected \in BOOLEAN :
          /\ writes' = [j \in 1..(Len(writes) - 1) |->
                           IF j < i THEN writes[j] ELSE writes[j + 1]]
          /\ uncaught' = TryCatch(rejected)
    /\ UNCHANGED <<printerType, printerDevice, printerChar, ticketModalOpen,
                   ticketContent>>
    /\ UNCHANGED <<ledgerVars, obsVars, scaleVars, pending, startVars>>

\* setView(AppView.SUMMARY) of the dashboard and the way back.
GoSummary ==
    /\ view = "DASHBOARD"
    /\ view' = "SUMMARY"
    /\ lastOp' = Op("other")
    /\ undo' = NoUndo
    /\ UNCHANGED <<providers, selectedProviderId, currentSaleId, now, stored>>
    /\ UNCHANGED deviceVars

BackFromSummary ==
    /\ view = "SUMMARY"
    /\ view' = "DASHBOARD"
    /\ lastOp' = Op("other")
    /\ undo' = NoUndo
    /\ UNCHANGED <<providers, selectedProviderId, currentSaleId, now, stored>>
    /\ UNCHANGED deviceVars

NextPrint ==
    \/ saveConfig
    \/ connectPrinter
    \/ PreviewTicket
    \/ PreviewSummary
    \/ CancelPreview
    \/ Imprimir
    \/ WriteSettles
    \/ NoModal /\ GoSummary
    \/ NoModal /\ BackFromSummary
    \/ NoModal /\ BackToDashboard
    \/ NoModal /\ OpenSale
    \/ NoModal /\ toggleSaleLock

SpecPrint == DetailInit /\ [][NextPrint]_vars

(* ---------------- the panels and the button of the scale -------------- *)

\* x + y, x - y, x > y and x >= y of numbers (no operand of a subtraction
\* is infinite: the sums of counts are finite).
NumAdd(x, y) ==
    IF isNaN(x) \/ isNaN(y) THEN NaN
    ELSE IF x.kind = "inf" \/ y.kind = "inf" THEN Infinity
    ELSE Num(x.n * y.d + y.n * x.d, x.d * y.d)
NumSub(x, y) ==
    IF isNaN(x) \/ isNaN(y) THEN NaN
    ELSE Num(x.n * y.d - y.n * x.d, x.d * y.d)
NumGt(x, y) ==
    /\ ~isNaN(x) /\ ~isNaN(y)
    /\ y.kind # "inf"
    /\ x.kind = "inf" \/ x.n * y.d > y.n * x.d
NumGeq(x, y) ==
    /\ ~isNaN(x) /\ ~isNaN(y)
    /\ x.kind = "inf" \/ (y.kind # "inf" /\ x.n * y.d >= y.n * x.d)

\* seq.reduce((sum, c) => sum + c.crateCount, 0)
RECURSIVE NumSumCrateCount(_)
NumSumCrateCount(seq) ==
    IF seq = <<>> THEN Num(0, 1)
    ELSE NumAdd(NumSumCrateCount(SubSeq(seq, 1, Len(seq) - 1)),
                seq[Len(seq)].crateCount)

\* currentSales.reduce((acc, s) => acc + s.fullCrates.reduce(...), 0)
RECURSIVE NumTotalSoldGlobal(_)
NumTotalSoldGlobal(sales) ==
    IF sales = <<>> THEN Num(0, 1)
    ELSE NumAdd(NumTotalSoldGlobal(SubSeq(sales, 1, Len(sales) - 1)),
                NumSumCrateCount(sales[Len(sales)].fullCrates))

\* What a render gives the handlers it creates: the state they close over.
Closure == [providers |-> providers, selectedProviderId |-> selectedProviderId,
            currentSaleId |-> currentSaleId]

\* currentSales of a closure
SalesIn(c) ==
    IF find(c.providers, c.selectedProviderId) = 0 THEN <<>>
    ELSE c.providers[find(c.providers, c.selectedProviderId)].sales

\* addWeight(type, weight, count) as the render of closure c made it, with
\* entryId read from the clock: the alert it raises, whether it reaches
\* handleUpdateProviderSales, and the list it passes.
addWeightIn(c, type, weight, count, entryId) ==
    LET sales == SalesIn(c)
        p == find(c.providers, c.selectedProviderId)
        i == find(sales, c.currentSaleId)
    IN IF c.currentSaleId = NULL \/ c.selectedProviderId = NULL \/ p = 0 \/ i = 0
       THEN [alert |-> "none", commits |-> FALSE, updatedSales |-> sales]
       ELSE
       LET currentSale == sales[i]
           currentProvider == c.providers[p]
           currentClientCount == NumSumCrateCount(currentSale.fullCrates)
           totalEmptyCrates == NumSumCrateCount(currentSale.emptyCrates)
           alert ==
               IF type = "FULL" /\ NumGt(NumAdd(NumTotalSoldGlobal(sales), count),
                                         Num(currentProvider.initialFullCrates, 1))
               THEN "StockExceeded"
               ELSE IF type = "FULL" /\ NumGt(NumAdd(currentClientCount, count),
                                              Num(currentSale.targetFullCrates, 1))
               THEN "ClientLimitExceeded"
               ELSE IF type = "EMPTY" /\ NumGt(NumAdd(totalEmptyCrates, count),
                                               currentClientCount)
               THEN "EmptyExceedsFull"
               ELSE "none"
       IN [alert |-> alert, commits |-> alert = "none",
           updatedSales |-> SalesWithEntry(sales, c.currentSaleId, type, entryId,
                                           weight, count)]

\* The step of a handler that calls addWeight of closure c: the alert, or
\* setProviders(prev => ...) on the state of now, and the effect that saves.
AddStep(c, type, weight, count) ==
    /\ \E t \in ClockReads :
          LET r == addWeightIn(c, type, weight, count, t) IN
          /\ providers' = IF r.commits
                          THEN handleUpdateProviderSales(providers,
                                   c.selectedProviderId, r.updatedSales)
                          ELSE providers
          /\ now' = IF r.commits THEN t ELSE now
          /\ lastOp' = [op |-> "addWeight", alert |-> r.alert]
          /\ undo' = IF providers' # providers
                     THEN [state |-> "added", type |-> type, id |-> t,
                           before |-> providers]
                     ELSE NoUndo
    /\ UNCHANGED <<selectedProviderId, currentSaleId, view>>
    /\ Persist

\* Crates of the provider and of the client in the ledger the panels start
\* from: the button of the scale adds 5 crates at a time.
CratesForScale == 5

\* The ledger after a first provider and a first sale were created, of
\* CratesForScale crates each.
PanelInit ==
    /\ providers = <<[id |-> 1, initialFullCrates |-> CratesForScale,
                      chickensPerCrate |-> 1,
                      sales |-> <<NewSale(1, CratesForScale)>>]>>
    /\ selectedProviderId = 1
    /\ currentSaleId = 1
    /\ view = "SALE_DETAIL"
    /\ now = 1
    /\ stored = [present |-> TRUE, value |-> JSONstringify(providers)]
    /\ lastOp = Op("other")
    /\ undo = NoUndo
    /\ DeviceInit

\* Texts the two inputs of a panel can hold when the form is submitted.
WeightTexts == {<<"2", ".", "5">>, <<"-", "5">>, <<>>}
CountTexts == {<<"1">>, <<"1", ".", "5">>, <<"0">>}

\* disabled and maxAllowed of the three panels of renderSaleDetail.
PanelDisabled(type) ==
    LET activeSale == currentSales[currentSaleIdx] IN
    \/ activeSale.isCompleted
    \/ /\ type = "FULL"
       /\ NumGeq(NumSumCrateCount(activeSale.fullCrates),
                 Num(activeSale.targetFullCrates, 1))
isOverLimit(type, count) ==
    LET activeSale == currentSales[currentSaleIdx]
        remainingEmptyAllowed == NumSub(NumSumCrateCount(activeSale.fullCrates),
                                        NumSumCrateCount(activeSale.emptyCrates))
        currentCountVal == parseFloat(count)
    IN /\ type = "EMPTY"
       /\ ~isNaN(currentCountVal)
       /\ NumGt(currentCountVal, remainingEmptyAllowed)

\* A task of the event loop starts only when no microtask waits: the
\* continuation of an await on a promise that is already resolved runs
\* before the next event is handled.
HandlerMayStartWhilePending == TRUE
HandlerMayStart == ~pending.active

\* WeighingPanel.handleSubmit of the panel of type, and onAdd(w, c).
handleSubmit ==
    /\ HandlerMayStart
    /\ SaleDetailShown
    /\ CountObjects(providers) < MaxObjects
    /\ \E type \in Types, weight \in WeightTexts, count \in CountTexts :
          LET w == parseFloat(weight)
              c == parseFloat(count)
          IN /\ ~PanelDisabled(type)
             /\ ~isOverLimit(type, count)
             /\ IF ~isNaN(w) /\ ~isNaN(c) /\ IsPositive(w) /\ IsPositive(c)
                THEN AddStep(Closure, type, w, c)
                ELSE /\ lastOp' = Op("other")
                     /\ undo' = NoUndo
                     /\ UNCHANGED ledgerVars
    /\ UNCHANGED deviceVars

\* The delete button of an entry, which a panel shows while !disabled.
PanelDeleteEnabled(type) == ~PanelDisabled(type)
PanelDelete ==
    /\ HandlerMayStart
    /\ SaleDetailShown
    /\ \E type \in Types : PanelDeleteEnabled(type) /\ deleteEntryOf(type)

\* Payloads and values of Math.random() of the scale the panels are used with.
PanelPayloads == {LongPayload, <<"2", ".", "5">>, <<"0">>}
PanelRandomValues == {Num(1, 2)}

\* A notification of the scale.
PanelScaleNotify ==
    /\ HandlerMayStart
    /\ scaleChar.char
    /\ \E text \in PanelPayloads : scaleChar' = CharWith(text)
    /\ UNCHANGED <<scaleDevice, scaleRead, ledgerVars, obsVars, printVars, pending, uncaught, startVars>>

\* Leer Balanza up to its await: readScaleWeight() has run, and the rest of
\* the handler waits with the closure of the render that made it.
LeerBalanzaPress ==
    /\ HandlerMayStart
    /\ SaleDetailShown
    /\ scaleDevice # "none"
    /\ CountObjects(providers) < MaxObjects
    /\ \E random \in PanelRandomValues :
          pending' = [active |-> TRUE, closure |-> Closure,
                      w |-> readScaleWeight(scaleChar, random)]
    /\ UNCHANGED <<ledgerVars, obsVars, scaleVars, printVars, uncaught, startVars>>

\* The rest of Leer Balanza: if (w) addWeight('FULL', w, 5).
LeerBalanzaResume ==
    /\ pending.active
    /\ pending' = NoPending
    /\ IF Truthy(pending.w)
       THEN AddStep(pending.closure, "FULL", pending.w, Num(5, 1))
       ELSE /\ lastOp' = Op("other")
            /\ undo' = NoUndo
            /\ UNCHANGED ledgerVars
    /\ UNCHANGED <<scaleVars, printVars, uncaught, startVars>>

NextPanel ==
    \/ HandlerMayStart /\ connectScale
    \/ PanelScaleNotify
    \/ handleSubmit
    \/ LeerBalanzaPress
    \/ LeerBalanzaResume
    \/ HandlerMayStart /\ toggleSaleLock
    \/ PanelDelete

SpecPanel == PanelInit /\ [][NextPanel]_vars

(* ------------------- the devices, on the detail view ------------------- *)

\* The scale and the printer are connected, read and printed with, while
\* the sale shown is locked and opened again.
NextDevices ==
    \/ NoModal /\ connectScale
    \/ NoModal /\ PanelScaleNotify
    \/ NoModal /\ ReadScale
    \/ connectPrinter
    \/ PreviewTicket
    \/ Imprimir
    \/ WriteSettles
    \/ NoModal /\ toggleSaleLock

SpecDevices == DetailInit /\ [][NextDevices]_vars

(* ------------------------- the report of the day ----------------------- *)

\* netWeight of a sale in the salesSummary of generateDailyReport.
generateDailyReportNetWeight(s) ==
    LET totalFullWeight == SumWeight(s.fullCrates)
        totalFullCrates == SumCrateCount(s.fullCrates)
        totalEmptyWeight == SumWeight(s.emptyCrates)
        totalEmptyCrates == SumCrateCount(s.emptyCrates)
        deadWeight == SumWeight(s.mortality)
        avgTare == IF totalEmptyCrates > 0
                   THEN Rat(totalEmptyWeight, totalEmptyCrates)
                   ELSE Rat(DefaultTare, 1)
        totalTare == RatMulInt(totalFullCrates, avgTare)
    IN RatSub(RatSub(Rat(totalFullWeight, 1), totalTare), Rat(deadWeight, 1))

(* ------------------------------- startup ------------------------------ *)

\* An item of localStorage that is not a JSON text.
CorruptItem == [present |-> TRUE, text |-> "{"]

\* JSON.parse throws on the item.
JSONparseThrows(item) == item.present /\ "value" \notin DOMAIN item

\* Sales lists of the collections a former session can have stored.
StoredSalesLists ==
    LET full == <<[id |-> 1, weight |-> 50, crateCount |-> 2]>>
        empty == <<[id |-> 2, weight |-> 25, crateCount |-> 1]>>
        dead == <<[id |-> 2, weight |-> 10, count |-> 1]>>
    IN {<<>>,
        <<NewSale(1, 2)>>,
        <<[NewSale(1, 2) EXCEPT !.fullCrates = full]>>,
        <<[NewSale(1, 2) EXCEPT !.fullCrates = full, !.emptyCrates = empty]>>,
        <<[NewSale(1, 2) EXCEPT !.fullCrates = full, !.mortality = dead,
                                !.isCompleted = TRUE]>>,
        <<NewSale(1, 1), NewSale(2, 1)>>}

\* The collections a former session can have stored: never an empty one.
StoredCollections ==
    UNION {{[i \in 1..n |-> [NewProvider(i, 2, 1) EXCEPT !.sales = lists[i]]] :
               lists \in [1..n -> StoredSalesLists]} : n \in 1..MaxTime}

\* The application is mounted: the first render has run with the initial
\* state of the component, and no effect has run yet.
StartInit ==
    /\ providers = <<>>
    /\ selectedProviderId = NULL
    /\ currentSaleId = NULL
    /\ view = "MENU"
    /\ now = 0
    /\ stored \in {NoItem, CorruptItem} \cup
                  {[present |-> TRUE, value |-> JSONstringify(c)] :
                      c \in StoredCollections}
    /\ lastOp = Op("init")
    /\ undo = NoUndo
    /\ scaleDevice = "none"
    /\ scaleChar = NoChar
    /\ scaleRead = NoRead
    /\ printerType = "BLUETOOTH"
    /\ printerDevice = "none"
    /\ printerChar = 0
    /\ ticketModalOpen = FALSE
    /\ ticketContent = <<>>
    /\ writes = <<>>
    /\ pending = NoPending
    /\ uncaught = FALSE
    /\ boot = [phase |-> "mounted", reported |-> FALSE, queued |-> FALSE]
    /\ sw = NoWorker

startOther == <<selectedProviderId, currentSaleId, view, now, obsVars,
                scaleVars, printVars, pending, sw>>

\* useEffect(..., []): reads the item; an item that parses is queued as the
\* next value of providers, one that does not is reported on the console.
LoadEffect ==
    /\ boot.phase = "mounted"
    /\ IF stored.present
       THEN IF JSONparseThrows(stored)
            THEN boot' = [phase |-> "loaded", reported |-> TRUE,
                          queued |-> FALSE]
            ELSE boot' = [phase |-> "loaded", reported |-> FALSE,
                          queued |-> TRUE, value |-> JSONparse(stored.value)]
       ELSE boot' = [boot EXCEPT !.phase = "loaded"]
    /\ uncaught' = TryCatch(JSONparseThrows(stored))
    /\ UNCHANGED <<providers, stored, startOther>>

\* useEffect(..., [providers]) of the first render: providers is the
\* initial collection.  Without a queued update no other render follows.
PersistEffectOfMount ==
    /\ boot.phase = "loaded"
    /\ stored' = PersistEffect(providers, stored)
    /\ boot' = [boot EXCEPT !.phase = IF boot.queued THEN "settled"
                                      ELSE "running"]
    /\ UNCHANGED <<providers, uncaught, startOther>>

\* The render that follows setProviders of the load effect.
RenderLoaded ==
    /\ boot.phase = "settled"
    /\ providers' = boot.value
    /\ boot' = [boot EXCEPT !.phase = "rendered"]
    /\ UNCHANGED <<stored, uncaught, startOther>>

\* useEffect(..., [providers]) of that render.
PersistEffectOfLoaded ==
    /\ boot.phase = "rendered"
    /\ stored' = PersistEffect(providers, stored)
    /\ boot' = [boot EXCEPT !.phase = "running"]
    /\ UNCHANGED <<providers, uncaught, startOther>>

NextStart ==
    \/ LoadEffect
    \/ PersistEffectOfMount
    \/ RenderLoaded
    \/ PersistEffectOfLoaded

SpecStart == StartInit /\ [][NextStart]_vars

(* --------------------------- the two forms ---------------------------- *)

\* A field of newProvider no input has set.
Undefined == [kind |-> "undefined", n |-> 0, d |-> 0]

\* parseInt: the sign and the run of digits text starts with, NaN when it
\* starts with no digit.
parseInt(text) ==
    LET signed == Len(text) >= 1 /\ text[1] \in {"-", "+"}
        i == IF signed THEN 2 ELSE 1
        j == DigitRunEnd(text, i)
        intLen == j - SkipZeros(text, i, j)
        magnitude == DigitsValue(text, i, j)
    IN IF j = i THEN NaN
       ELSE IF intLen > MaxDoubleDigits THEN Infinity
       ELSE Num(IF signed /\ text[1] = "-" THEN -magnitude ELSE magnitude, 1)

\* Number(x) of a field of the form.
Number(x) == IF x.kind = "undefined" THEN NaN ELSE x

\* Texts of the inputs of the two forms.
NameTexts == {<<>>, <<"A">>}
StockTexts == {<<>>, <<"0">>, <<"-", "5">>, <<"3">>}
ChickensTexts == {<<>>, <<"-", "2">>}
LimitTexts == {<<>>, <<"0">>, <<"-", "1">>, <<"2">>}

\* newProvider when the button is pressed: the fields are as useState or
\* the reset of the last creation left them, or as onChange set them.  The
\* second input is used with a stock of 3.
ProviderForms ==
    [name : NameTexts,
     initialFullCrates : {Undefined, Num(0, 1)}
                            \cup {parseInt(t) : t \in StockTexts},
     chickensPerCrate : {Num(9, 1)}]
    \cup [name : NameTexts,
          initialFullCrates : {parseInt(<<"3">>)},
          chickensPerCrate : {parseInt(t) : t \in ChickensTexts}]

FormAlert == [op |-> "other", alert |-> "form"]

\* handleCreateProvider on a form.
handleCreateProviderOf(newProvider) ==
    /\ view = "PROVIDERS"
    /\ CountObjects(providers) < MaxObjects
    /\ IF newProvider.name = <<>> \/ ~Truthy(newProvider.initialFullCrates)
       THEN /\ lastOp' = FormAlert
            /\ UNCHANGED <<providers, now>>
       ELSE /\ \E t \in ClockReads :
                  /\ providers' = Append(providers,
                        NewProvider(t,
                            Number(newProvider.initialFullCrates).n,
                            IF Truthy(Number(newProvider.chickensPerCrate))
                            THEN Number(newProvider.chickensPerCrate).n
                            ELSE 9))
                  /\ now' = t
            /\ lastOp' = Op("other")
    /\ undo' = NoUndo
    /\ UNCHANGED <<selectedProviderId, currentSaleId, view>>
    /\ UNCHANGED deviceVars
    /\ Persist

CreateProviderClick == \E newProvider \in ProviderForms :
                           handleCreateProviderOf(newProvider)

\* handleCreateSale on the values of the two inputs of the form.
handleCreateSaleOf(name, limitText) ==
    LET limit == parseInt(limitText) IN
    /\ view = "DASHBOARD"
    /\ currentProviderIdx # 0
    /\ CountObjects(providers) < MaxObjects
    /\ IF name = <<>> \/ isNaN(limit) \/ ~IsPositive(limit)
       THEN /\ lastOp' = FormAlert
            /\ UNCHANGED <<providers, currentSaleId, now, view>>
       ELSE /\ \E t \in ClockReads :
                  /\ providers' = handleUpdateProviderSales(providers,
                                      selectedProviderId,
                                      Append(currentSales, NewSale(t, limit.n)))
                  /\ currentSaleId' = t
                  /\ now' = t
            /\ view' = "SALE_DETAIL"
            /\ lastOp' = Op("other")
    /\ undo' = NoUndo
    /\ UNCHANGED <<selectedProviderId>>
    /\ UNCHANGED deviceVars
    /\ Persist

CreateSaleSubmit == \E name \in NameTexts, limitText \in LimitTexts :
                        handleCreateSaleOf(name, limitText)

NextCreate ==
    \/ GoProviders
    \/ SelectProvider
    \/ BackToProviders
    \/ OpenSale
    \/ BackToDashboard
    \/ CreateProviderClick
    \/ handleDeleteProvider
    \/ CreateSaleSubmit
    \/ handleDeleteSale
    \/ toggleSaleLock

SpecCreate == Init /\ [][NextCreate]_vars

(* -------------------------- the service worker ------------------------- *)

CACHE_NAME == "pollo-control-v2"

\* The cache a former version of the worker left behind.
FormerCacheName == "pollo-control-v1"

AIHost == "generativelanguage.googleapis.com"
AppHost == "app"

\* Two of the ASSETS_TO_CACHE, an address the page asks for that is none of
\* them, and the address of the AI API.  No path holds the name of a host.
IndexUrl == [host |-> AppHost, path |-> "./index.html"]
ManifestUrl == [host |-> AppHost, path |-> "./manifest.json"]
ASSETS_TO_CACHE == {IndexUrl, ManifestUrl}
WorkerUrls == ASSETS_TO_CACHE \cup {[host |-> AppHost, path |-> "./logo.png"],
                                    [host |-> AIHost, path |-> "/v1beta/models"]}

\* event.request.url.includes('generativelanguage.googleapis.com')
IncludesAIHost(url) == url.host = AIHost

Methods == {"GET", "POST"}
Bodies == {"a", "b"}

\* What fetch(event.request) settles with: a response, ok or not, or a
\* rejection.
NetworkOutcomes ==
    {[settled |-> "response", ok |-> ok, body |-> b] :
        ok \in BOOLEAN, b \in Bodies} \cup {[settled |-> "rejected"]}

NoFetch == [handled |-> FALSE, method |-> "GET", url |-> IndexUrl]
EmptyCache == [u \in {} |-> "a"]

\* The worker script is parsed; the page has stored nothing of its own in
\* the caches.
WorkerInit ==
    /\ providers = <<>>
    /\ selectedProviderId = NULL
    /\ currentSaleId = NULL
    /\ view = "MENU"
    /\ now = 0
    /\ stored = NoItem
    /\ lastOp = Op("init")
    /\ undo = NoUndo
    /\ scaleDevice = "none"
    /\ scaleChar = NoChar
    /\ scaleRead = NoRead
    /\ printerType = "BLUETOOTH"
    /\ printerDevice = "none"
    /\ printerChar = 0
    /\ ticketModalOpen = FALSE
    /\ ticketContent = <<>>
    /\ writes = <<>>
    /\ pending = NoPending
    /\ uncaught = FALSE
    /\ boot = Running
    /\ \E names \in SUBSET {FormerCacheName} :
          sw = [phase |-> "parsed", names |-> names, held |-> EmptyCache,
                last |-> NoFetch]

workerOther == <<ledgerVars, obsVars, scaleVars, printVars, pending, uncaught,
                 boot>>

\* cache.put(request, response)
CachePut(held, url, body) ==
    [u \in DOMAIN held \cup {url} |-> IF u = url THEN body ELSE held[u]]

\* install: the cache is opened, and cache.add stores each asset whose
\* request gives an ok response; the others are skipped with a warning.
install ==
    /\ sw.phase = "parsed"
    /\ \E added \in SUBSET ASSETS_TO_CACHE, b \in Bodies :
          sw' = [sw EXCEPT !.phase = "installed",
                           !.names = @ \cup {CACHE_NAME},
                           !.held = [u \in added |-> b]]
    /\ UNCHANGED workerOther

\* activate: every cache with another name is deleted.
activate ==
    /\ sw.phase = "installed"
    /\ sw' = [sw EXCEPT !.phase = "active",
                        !.names = {c \in @ : ~(c # CACHE_NAME)}]
    /\ UNCHANGED workerOther

\* What respondWith is given: cachedResponse || fetchPromise, where the
\* promise of a rejected fetch resolves with undefined.
RespondWith(cachedResponse, network) ==
    IF cachedResponse.found
    THEN [kind |-> "response", from |-> "cache", body |-> cachedResponse.body]
    ELSE IF network.settled = "response"
    THEN [kind |-> "response", from |-> "network", ok |-> network.ok,
          body |-> network.body]
    ELSE [kind |-> "undefined"]

\* cache.match(event.request)
CacheMatch(held, url) ==
    IF url \in DOMAIN held THEN [found |-> TRUE, body |-> held[url]]
    ELSE [found |-> FALSE]

\* The fetch listener on one request of the page.
fetchEvent ==
    /\ sw.phase = "active"
    /\ \E method \in Methods, url \in WorkerUrls, network \in NetworkOutcomes :
          IF method # "GET" \/ IncludesAIHost(url)
          THEN sw' = [sw EXCEPT !.last = [handled |-> FALSE, method |-> method,
                                          url |-> url]]
          ELSE LET cachedResponse == CacheMatch(sw.held, url) IN
               sw' = [sw EXCEPT
                        !.names = @ \cup {CACHE_NAME},
                        !.held = IF network.settled = "response" /\ network.ok
                                 THEN CachePut(@, url, network.body) ELSE @,
                        !.last = [handled |-> TRUE, method |-> method,
                                  url |-> url, cached |-> cachedResponse,
                                  network |-> network,
                                  answer |-> RespondWith(cachedResponse,
                                                         network)]]
    /\ UNCHANGED workerOther

NextWorker ==
    \/ install
    \/ activate
    \/ fetchEvent

SpecWorker == WorkerInit /\ [][NextWorker]_vars

(* ------------------------------ claims -------------------------------- *)

\* The sale the detail view shows.
ShownSale == currentSales[currentSaleIdx]

\* Every (provider, sale) position of the ledger.
SalePositions ==
    UNION {{<<p, s>> : s \in DOMAIN providers[p].sales} : p \in DOMAIN providers}

SaleAt(ps) == providers[ps[1]].sales[ps[2]]

\* Sums written over the indices of a sequence, independently of the reduce
\* calls of the code.
RECURSIVE SigmaUpTo(_, _, _)
SigmaUpTo(seq, Val(_), k) ==
    IF k = 0 THEN 0 ELSE SigmaUpTo(seq, Val, k - 1) + Val(seq[k])

Sigma(seq, Val(_)) == SigmaUpTo(seq, Val, Len(seq))
FullCountOf(sale) == Sigma(sale.fullCrates, LAMBDA e : e.crateCount)
EmptyCountOf(sale) == Sigma(sale.emptyCrates, LAMBDA e : e.crateCount)
DeadCountOf(sale) == Sigma(sale.mortality, LAMBDA e : e.count)
FullWeightOf(sale) == Sigma(sale.fullCrates, LAMBDA e : e.weight)
EmptyWeightOf(sale) == Sigma(sale.emptyCrates, LAMBDA e : e.weight)
DeadWeightOf(sale) == Sigma(sale.mortality, LAMBDA e : e.weight)

\* C1: for every provider, the crates of the Full entries of all its sales
\* never add up to more than its initialFullCrates.
C1_ProviderStockRespected ==
    \A p \in DOMAIN providers :
        Sigma(providers[p].sales, FullCountOf) <= providers[p].initialFullCrates

\* C2: in every sale the crates of the Empty entries never outnumber the
\* crates of the Full entries, whatever operation ran last.
C2_EmptyNeverExceedsFull ==
    \A ps \in SalePositions : EmptyCountOf(SaleAt(ps)) <= FullCountOf(SaleAt(ps))

\* C3: a step of addWeight or deleteEntry leaves every sale that is completed
\* (locked) exactly as it was, whatever the type, weight, count or entry id;
\* and on a sale that is open (never locked, or reopened by toggleSaleLock) an
\* add that passes the checks appends its entry and a delete removes the
\* entries of the given id.
C3_LockedSaleFrozen ==
    [][/\ lastOp'.op \in {"addWeight", "deleteEntry"} =>
            \A ps \in SalePositions :
                SaleAt(ps).isCompleted =>
                    /\ ps[1] \in DOMAIN providers'
                    /\ ps[2] \in DOMAIN providers'[ps[1]].sales
                    /\ providers'[ps[1]].sales[ps[2]] = SaleAt(ps)
       /\ (lastOp'.op = "addWeight" /\ lastOp'.alert = "none"
              /\ ~ShownSale.isCompleted) =>
            CountEntries(<<ShownSale>>)' = CountEntries(<<ShownSale>>) + 1
       /\ (lastOp'.op = "deleteEntry" /\ ~ShownSale.isCompleted) =>
            CountEntries(<<ShownSale>>)' < CountEntries(<<ShownSale>>)
      ]_vars

\* C3 witness: addWeight ran, silently, on a completed sale that holds entries.
C3_AddOnLockedSale ==
    /\ SaleDetailShown
    /\ lastOp.op = "addWeight"
    /\ lastOp.alert = "none"
    /\ ShownSale.isCompleted
    /\ ShownSale.fullCrates # <<>>

\* C4: in every sale the crates of the Full entries never add up to more than
\* the sale's targetFullCrates.
C4_ClientLimitRespected ==
    \A ps \in SalePositions : FullCountOf(SaleAt(ps)) <= SaleAt(ps).targetFullCrates

\* C5: an add on a completed sale is rejected as SaleLocked: the lock check
\* comes first, so the outcome reported is never StockExceeded,
\* ClientLimitExceeded or EmptyExceedsFull.
C5_LockedAddReportsSaleLocked ==
    (SaleDetailShown /\ lastOp.op = "addWeight" /\ ShownSale.isCompleted)
        => lastOp.alert \notin {"StockExceeded", "ClientLimitExceeded", "EmptyExceedsFull"}

\* All metrics of the ledger: one record per sale.
MetricsAt(ps) == calculateSaleMetrics(SaleAt(ps), providers[ps[1]].chickensPerCrate)

\* C6: the netWeight of every sale is a well-defined number >= 0 in every
\* reachable state of the ledger.
C6_NetWeightNonNegative ==
    \A ps \in SalePositions :
        LET net == MetricsAt(ps).netWeight
        IN net.d > 0 /\ net.n >= 0

\* C6 witness: a sale with full crates and dead birds and no weighed empty
\* crate, whose tare (2.5 kg a crate) plus mortality weight exceed its gross
\* weight.
C6_TareAndMortalityExceedGross ==
    \E ps \in SalePositions :
        /\ SaleAt(ps).mortality # <<>>
        /\ SaleAt(ps).emptyCrates = <<>>
        /\ FullCountOf(SaleAt(ps)) > 0
        /\ FullWeightOf(SaleAt(ps))
              < FullCountOf(SaleAt(ps)) * 25 + DeadWeightOf(SaleAt(ps))

\* The sale of the scenarios of the specification: Full (50.0 kg, 10), Empty
\* (20.0 kg, 10) and, with dead = TRUE, Mortality (1.2 kg, 2).
ScenarioSale(dead) ==
    [id |-> 1, targetFullCrates |-> 20, isCompleted |-> FALSE,
     fullCrates |-> <<[id |-> 1, weight |-> 500, crateCount |-> 10]>>,
     emptyCrates |-> <<[id |-> 2, weight |-> 200, crateCount |-> 10]>>,
     mortality |-> IF dead THEN <<[id |-> 3, weight |-> 12, count |-> 2]>> ELSE <<>>]

\* The metrics of scenarios B and C, at 9 chickens per crate.
ScenarioB == calculateSaleMetrics(ScenarioSale(FALSE), 9)
ScenarioC == calculateSaleMetrics(ScenarioSale(TRUE), 9)

\* The relations of C7 for one sale and its metrics m, fractions compared by
\* cross-multiplication (weights in tenths of a kilogram, so 2.5 kg is 25).
TareAndNetAsSpecified(sale, m) ==
    LET fw == FullWeightOf(sale)
        fc == FullCountOf(sale)
        ew == EmptyWeightOf(sale)
        ec == EmptyCountOf(sale)
        dw == DeadWeightOf(sale)
        \* fullWeight - totalTare - deadWeight, times the denominator of totalTare
        x == (fw - dw) * m.totalTare.d - m.totalTare.n
    IN /\ m.fullWeight = fw /\ m.fullCount = fc
       /\ m.emptyWeight = ew /\ m.emptyCount = ec
       /\ m.deadWeight = dw /\ m.deadCount = DeadCountOf(sale)
       /\ m.avgTare.d > 0 /\ m.totalTare.d > 0 /\ m.netWeight.d > 0
       /\ IF ec > 0 THEN m.avgTare.n * ec = ew * m.avgTare.d
          ELSE m.avgTare.n = 25 * m.avgTare.d
       /\ m.totalTare.n * m.avgTare.d = fc * m.avgTare.n * m.totalTare.d
       /\ IF x > 0 THEN m.netWeight.n * m.totalTare.d = x * m.netWeight.d
          ELSE m.netWeight.n = 0

\* C7: for every sale avgTare = emptyWeight / emptyCount when emptyCount > 0 and
\* 2.5 kg otherwise, totalTare = fullCount * avgTare and netWeight =
\* max(0, fullWeight - totalTare - deadWeight), the sums taken over the current
\* entries; the sale of scenarios B and C gives avgTare 2.0, totalTare 20.0 and
\* netWeight 30.0 without and 28.8 with its mortality entry.
C7_TareAndNetWeight ==
    /\ \A ps \in SalePositions : TareAndNetAsSpecified(SaleAt(ps), MetricsAt(ps))
    /\ RatEq(ScenarioB.avgTare, Rat(20, 1)) /\ RatEq(ScenarioC.avgTare, Rat(20, 1))
    /\ RatEq(ScenarioB.totalTare, Rat(200, 1)) /\ RatEq(ScenarioC.totalTare, Rat(200, 1))
    /\ RatEq(ScenarioB.netWeight, Rat(300, 1)) /\ RatEq(ScenarioC.netWeight, Rat(288, 1))

\* C7 witness: a sale with weighed empty crates and a positive net weight.
C7_SaleWithMeasuredTare ==
    \E ps \in SalePositions :
        /\ EmptyCountOf(SaleAt(ps)) > 0
        /\ MetricsAt(ps).netWeight.n > 0
        /\ ~RatEq(MetricsAt(ps).avgTare, Rat(25, 1))

\* C8: totalBirds = fullCount * chickensPerCrate - deadCount and
\* avgWeightPerBird = netWeight / totalBirds when totalBirds > 0, else 0; no
\* quotient has a zero divisor and avgWeightPerBird is never negative.
C8_BirdAverageGuarded ==
    /\ \A ps \in SalePositions :
        LET m == MetricsAt(ps)
            birds == FullCountOf(SaleAt(ps)) * providers[ps[1]].chickensPerCrate
                        - DeadCountOf(SaleAt(ps))
        IN /\ m.totalBirds = birds
           /\ m.avgWeightPerBird.d # 0 /\ m.avgTare.d # 0
           /\ m.avgWeightPerBird.n * m.avgWeightPerBird.d >= 0
           /\ IF birds > 0
              THEN m.avgWeightPerBird.n * m.netWeight.d * birds
                      = m.netWeight.n * m.avgWeightPerBird.d
              ELSE m.avgWeightPerBird.n = 0
    /\ ScenarioC.totalBirds = 88
    /\ RatEq(ScenarioC.avgWeightPerBird, Rat(288, 88))

\* C8 witness: a sale whose dead birds outnumber fullCount * chickensPerCrate.
C8_MoreDeadThanBirds ==
    \E ps \in SalePositions :
        /\ FullCountOf(SaleAt(ps)) > 0
        /\ MetricsAt(ps).totalBirds < 0

\* C9: deleting the entry an accepted add has just made gives back the ledger
\* as it was before the add: no other entry is removed or altered.
C9_AddDeleteRoundTrip ==
    undo.state = "deleted" => providers = undo.before

\* Ids of a sequence of records are pairwise different.
DistinctIds(seq) ==
    \A i, j \in DOMAIN seq : i # j => seq[i].id # seq[j].id

\* C10: the entries of one sequence have pairwise different ids, and so have
\* the sales of one provider and the providers.
C10_IdsAreFresh ==
    /\ DistinctIds(providers)
    /\ \A p \in DOMAIN providers : DistinctIds(providers[p].sales)
    /\ \A ps \in SalePositions :
          /\ DistinctIds(SaleAt(ps).fullCrates)
          /\ DistinctIds(SaleAt(ps).emptyCrates)
          /\ DistinctIds(SaleAt(ps).mortality)

\* Two numbers are the same number.
NumEq(x, y) ==
    /\ x.kind = y.kind
    /\ x.kind = "num" => x.n * y.d = y.n * x.d

\* The characteristic holds a payload in which a number occurs.
PayloadHasNumber(char) ==
    char.char /\ char.hasValue /\ FirstDigit(char.text, 1) # 0

\* The first decimal number of text with the sign written before it: the
\* leftmost run of digits, its fraction, and a "-" that directly precedes it.
FirstSignedNumber(text) ==
    LET i == FirstDigit(text, 1)
        unsigned == RegexMatch(text)
    IN IF i > 1 /\ text[i - 1] = "-" THEN <<"-">> \o unsigned ELSE unsigned

\* C19: when the characteristic holds a payload with a number in it,
\* readScaleWeight returns the first decimal number of the payload, integer or
\* fractional, with its sign: a payload that reads -5.2 gives -5.2.
C19_FirstSignedNumberReturned ==
    (scaleRead.done /\ PayloadHasNumber(scaleChar)) =>
        NumEq(scaleRead.result, parseFloat(FirstSignedNumber(scaleChar.text)))

\* C20: when no characteristic is connected, no payload was received or the
\* payload holds no number, readScaleWeight does not fail: it returns a number
\* from 10.00 to 30.00 with two decimals.
C20_ReadFallsBackToSimulation ==
    (scaleRead.done /\ ~PayloadHasNumber(scaleChar)) =>
        LET w == scaleRead.result
        IN /\ w.kind = "num"
           /\ 10 * w.d <= w.n /\ w.n <= 30 * w.d
           /\ (100 * w.n) % w.d = 0

\* C20 witness: a read of a payload that holds no number, answered by a
\* simulated weight that is no whole number of kilograms.
C20_SimulatedForPayloadWithoutNumber ==
    /\ scaleRead.done
    /\ scaleChar.hasValue
    /\ scaleChar.text # <<>>
    /\ ~PayloadHasNumber(scaleChar)
    /\ scaleRead.result.n % scaleRead.result.d # 0

\* C13: after every handler the item stored under the providers key is the
\* collection in memory, so that the load effect of a restart puts back
\* exactly that collection, also when the last provider has been deleted.
C13_SnapshotIsCurrent ==
    LoadProviders(stored) = providers

\* The sum of a fraction-valued metric over the sales k..Len(sales), taken
\* from the last sale backwards.
RECURSIVE RatSigmaFrom(_, _, _)
RatSigmaFrom(sales, Val(_), k) ==
    IF k > Len(sales) THEN Rat(0, 1)
    ELSE RatAdd(Val(sales[k]), RatSigmaFrom(sales, Val, k + 1))

\* C16: every total of the summary ticket of the provider selected is the sum
\* of that metric over the provider's sales - NETO TOTAL the sum of the clamped
\* net weights of the sales - and Stock Actual is never negative.
C16_SummaryTotalsAreSums ==
    currentProviderIdx # 0 =>
        LET t == generateProviderSummary
            cpc == providers[currentProviderIdx].chickensPerCrate
            M(sale) == calculateSaleMetrics(sale, cpc)
        IN /\ t.jabasVendidas = Sigma(currentSales, FullCountOf)
           /\ t.pesoBruto = Sigma(currentSales, FullWeightOf)
           /\ t.muertos = Sigma(currentSales, DeadCountOf)
           /\ t.pesoMuertos = Sigma(currentSales, DeadWeightOf)
           /\ RatEq(t.taraTotal,
                    RatSigmaFrom(currentSales, LAMBDA s : M(s).totalTare, 1))
           /\ RatEq(t.netoTotal,
                    RatSigmaFrom(currentSales, LAMBDA s : M(s).netWeight, 1))
           /\ t.stockActual = providers[currentProviderIdx].initialFullCrates
                                 - Sigma(currentSales, FullCountOf)
           /\ t.stockActual >= 0

\* sub stands in d at index i
At(d, sub, i) ==
    /\ i >= 1
    /\ i + Len(sub) - 1 <= Len(d)
    /\ SubSeq(d, i, i + Len(sub) - 1) = sub
Positions(d, sub) == {i \in DOMAIN d : At(d, sub, i)}

\* text from index i on, the whole sequence of every command left out
RECURSIVE WithoutDirectivesFrom(_, _)
WithoutDirectivesFrom(text, i) ==
    IF i > Len(text) THEN <<>>
    ELSE IF \E c \in {INIT, BOLD_ON, BOLD_OFF, CENTER, LEFT, CUT} : At(text, c, i)
    THEN LET c == CHOOSE c \in {INIT, BOLD_ON, BOLD_OFF, CENTER, LEFT, CUT} :
                     At(text, c, i)
         IN WithoutDirectivesFrom(text, i + Len(c))
    ELSE <<text[i]>> \o WithoutDirectivesFrom(text, i + 1)

\* C17: while the preview is shown, the text it shows holds no control
\* character and is the ticket with the whole escape sequence of every
\* directive removed.
C17_PreviewHasNoControlBytes ==
    ticketModalOpen =>
        LET shown == Preview(ticketContent) IN
        /\ \A i \in DOMAIN shown : shown[i] \notin ControlChars
        /\ shown = WithoutDirectivesFrom(ticketContent, 1)

Titles == {"POLLO CONTROL PRO", "RESUMEN DE PROVEEDOR"}
NetLabels == {"PESO NETO:      ", "NETO TOTAL:     "}

\* Bold is on at index i of d: a BOLD_ON stands before i and no BOLD_OFF
\* stands between the two.
BoldAt(d, i) ==
    \E on \in Positions(d, encode(BOLD_ON)) :
        /\ on < i
        /\ \A off \in Positions(d, encode(BOLD_OFF)) : off < on \/ off > i

DirectiveOrder(d) ==
    /\ At(d, encode(INIT), 1)
    /\ At(d, encode(CUT), Len(d) - Len(CUT) + 1)
    /\ \E t \in DOMAIN d, l \in Positions(d, encode(LEFT)), f \in DOMAIN d :
          /\ d[t] \in Titles
          /\ \E c \in Positions(d, encode(CENTER)) : c < t
          /\ BoldAt(d, t)
          /\ t < l /\ l < f
          /\ d[f] \in NetLabels
          /\ BoldAt(d, f)
          /\ \E off \in Positions(d, encode(BOLD_OFF)) : off > f
    /\ \A on \in Positions(d, encode(BOLD_ON)) :
          \E off \in Positions(d, encode(BOLD_OFF)) : off > on

\* C18: every stream given to writeValue of the printer starts with INIT,
\* has its title centered and bold, ALIGN_LEFT before the fields, the net
\* weight line between BOLD_ON and BOLD_OFF, every BOLD_ON closed, and ends
\* with CUT.
C18_DirectiveOrder ==
    \A i \in DOMAIN writes : DirectiveOrder(writes[i].data)

\* C15: no two writeValue of one characteristic of the printer are
\* unsettled together.
C15_OneWriteInFlight ==
    \A i, j \in DOMAIN writes : i # j => writes[i].char # writes[j].char

\* The entries of the three sequences of every sale.
StoredEntries ==
    UNION {{SaleAt(ps).fullCrates[k] : k \in DOMAIN SaleAt(ps).fullCrates}
             \cup {SaleAt(ps).emptyCrates[k] : k \in DOMAIN SaleAt(ps).emptyCrates}
             \cup {SaleAt(ps).mortality[k] : k \in DOMAIN SaleAt(ps).mortality}
           : ps \in SalePositions}
CountOf(e) == IF "crateCount" \in DOMAIN e THEN e.crateCount ELSE e.count
IsFinitePositive(x) == x.kind = "num" /\ x.n > 0

\* C11: every stored entry, whether the form of a panel or the button of
\* the scale added it, has a finite weight > 0 and a finite count > 0.
C11_StoredEntriesArePositive ==
    \A e \in StoredEntries :
        IsFinitePositive(e.weight) /\ IsFinitePositive(CountOf(e))

\* C12: the count of every stored entry is a positive integer.
C12_StoredCountsAreIntegers ==
    \A e \in StoredEntries :
        /\ IsFinitePositive(CountOf(e))
        /\ CountOf(e).n % CountOf(e).d = 0

\* C14: the continuation of the button of the scale does what addWeight
\* does on the ledger of the moment it runs: its validation and the list it
\* commits come from the current state, and a rejected add changes nothing.
C14_ScaleAddOnCurrentState ==
    [][(pending.active /\ ~pending'.active) =>
          \E t \in ClockReads :
             LET r == addWeightIn(Closure, "FULL", pending.w, Num(5, 1), t) IN
             providers' = IF Truthy(pending.w) /\ r.commits
                          THEN handleUpdateProviderSales(providers,
                                   selectedProviderId, r.updatedSales)
                          ELSE providers]_vars

\* The button of the scale has added its 5 crates to the sale shown.
C14_ScaleAddCommitted ==
    /\ ~pending.active
    /\ lastOp = [op |-> "addWeight", alert |-> "none"]
    /\ undo.state = "added"
    /\ \E e \in StoredEntries : CountOf(e) = Num(5, 1)

\* C21: a step of the scale, of the printer or of the preview, whether the
\* device answers or refuses, changes neither the ledger nor what is
\* stored, and no exception leaves its handler.
C21_DeviceStepsKeepLedger ==
    [][(scaleVars' # scaleVars \/ printVars' # printVars) =>
          /\ providers' = providers
          /\ stored' = stored
          /\ ~uncaught']_vars

\* The scale refused a connection and was read, the printer refused a
\* connection after one that succeeded, and a ticket was sent to print.
C21_DevicesHaveFailed ==
    /\ scaleDevice = "simulated"
    /\ scaleRead.done
    /\ printerDevice = "none"
    /\ printerChar > 0
    /\ ~ticketModalOpen
    /\ ticketContent # <<>>

\* C26: a read while the scale recorded is the simulated one returns a
\* simulated value, and a stream is written only while a printer that was
\* connected is the one recorded.
C26_NoStaleCharacteristic ==
    [][/\ (scaleDevice = "simulated" /\ scaleRead' # scaleRead /\ scaleRead'.done)
            => \E random \in RandomValues :
                  scaleRead'.result = ToFixed2(Simulated(random))
       /\ Len(writes') > Len(writes) => printerDevice = "real"]_vars

\* A step of toggleSaleLock: on the detail view the ledger changes, the
\* sale stays shown, and the handler is neither addWeight nor deleteEntry.
ToggleStep ==
    /\ SaleDetailShown
    /\ providers' # providers
    /\ lastOp' = Op("other")
    /\ view' = view
    /\ currentSaleId' = currentSaleId

\* provs is providers but for isCompleted of sale k of provider p, which is
\* flipped.
OnlyLockFlipped(provs, p, k) ==
    /\ DOMAIN provs = DOMAIN providers
    /\ \A q \in DOMAIN providers :
          IF q # p THEN provs[q] = providers[q]
          ELSE /\ provs[q] = [providers[q] EXCEPT !.sales = provs[q].sales]
               /\ DOMAIN provs[q].sales = DOMAIN providers[q].sales
               /\ \A j \in DOMAIN providers[q].sales :
                     IF j # k THEN provs[q].sales[j] = providers[q].sales[j]
                     ELSE provs[q].sales[j] =
                            [providers[q].sales[j] EXCEPT
                                !.isCompleted = ~providers[q].sales[j].isCompleted]

\* C22: toggleSaleLock flips isCompleted of the sale shown and changes
\* nothing else of the ledger, and a second toggle gives the first state back.
C22_ToggleFlipsOnlyTheLock ==
    [][ToggleStep =>
          /\ OnlyLockFlipped(providers', currentProviderIdx, currentSaleIdx)
          /\ ToggledSales(ToggledSales(currentSales, currentSaleId), currentSaleId)
                = currentSales]_vars

\* seq without its element at index i
WithoutIndex(seq, i) ==
    [j \in 1..(Len(seq) - 1) |-> IF j < i THEN seq[j] ELSE seq[j + 1]]

\* A step of a confirmed handleDeleteSale: on the dashboard or the detail
\* view the provider selected loses sales and no provider is removed.
DeleteSaleStep ==
    /\ view \in {"DASHBOARD", "SALE_DETAIL"}
    /\ currentProviderIdx # 0
    /\ lastOp' = Op("other")
    /\ Len(providers') = Len(providers)
    /\ Len(providers'[currentProviderIdx].sales) < Len(currentSales)

\* C23: a confirmed deletion removes one sale with its entries, open or
\* locked, keeps every other sale and every other provider, gives its full
\* crates back to the stock check, and leaves the detail view for the
\* dashboard, with no current sale, when the sale removed was the current one.
C23_DeleteRemovesOneSale ==
    [][DeleteSaleStep =>
          \E i \in DOMAIN currentSales :
             /\ providers' = [providers EXCEPT ![currentProviderIdx].sales =
                                 WithoutIndex(currentSales, i)]
             /\ TotalSoldGlobal(providers'[currentProviderIdx].sales)
                   = TotalSoldGlobal(currentSales)
                        - SumCrateCount(currentSales[i].fullCrates)
             /\ IF currentSaleId = currentSales[i].id
                THEN currentSaleId' = NULL /\ view' = "DASHBOARD"
                ELSE currentSaleId' = currentSaleId /\ view' = view]_vars

\* C24: on an open sale addWeight raises no alert for a Mortality entry,
\* whatever the stock, the target and the crates of the sale, and the list
\* it commits has the entry appended to the mortality of the sale, with its
\* full and empty crates as they were.
C24_MortalityAlwaysAccepted ==
    (SaleDetailShown /\ ~ShownSale.isCompleted) =>
        \A count \in Counts, weight \in Weights("MORTALITY"), t \in ClockReads :
            LET after == SalesWithEntry(currentSales, currentSaleId, "MORTALITY",
                                        t, weight, count)[currentSaleIdx]
            IN /\ AddAlert("MORTALITY", count) = "none"
               /\ after.mortality = Append(ShownSale.mortality,
                      [id |-> t, weight |-> weight, count |-> count])
               /\ after.fullCrates = ShownSale.fullCrates
               /\ after.emptyCrates = ShownSale.emptyCrates

\* A Mortality entry was accepted on a sale that has no full crates.
C24_MortalityOnSaleWithoutCrates ==
    /\ SaleDetailShown
    /\ undo.state = "added"
    /\ undo.type = "MORTALITY"
    /\ ShownSale.fullCrates = <<>>
    /\ Len(ShownSale.mortality) = 1

\* C27: while the sale shown is open, every panel that lists an entry
\* offers its deletion, also the panel of the full crates when the sale has
\* reached its target.
C27_DeleteEnabledOnOpenSale ==
    (SaleDetailShown /\ ~ShownSale.isCompleted) =>
        \A type \in Types :
            PanelEntries(type) # <<>> => PanelDeleteEnabled(type)

\* C28: for every sale of the ledger the net weight generateDailyReport
\* puts into its prompt is the netWeight of calculateSaleMetrics.
C28_ReportNetIsMetricsNet ==
    \A ps \in SalePositions :
        RatEq(generateDailyReportNetWeight(SaleAt(ps)), MetricsAt(ps).netWeight)

\* C25: no step of the startup changes the stored item, so the snapshot of
\* a former session is never replaced by the initial empty collection; no
\* exception leaves an effect; an item that does not parse is reported and
\* providers stays empty; an item that parses is providers once the
\* startup is over.
C25_StartupKeepsTheSnapshot ==
    [][boot.phase # "running" =>
          /\ stored' = stored
          /\ ~uncaught'
          /\ JSONparseThrows(stored) =>
                /\ providers' = <<>>
                /\ boot'.phase # "mounted" => boot'.reported
          /\ (boot'.phase = "running" /\ ~JSONparseThrows(stored)) =>
                providers' = LoadProviders(stored)]_vars

\* The startup is over and the collection of the former session is loaded.
C25_SnapshotLoaded ==
    /\ boot.phase = "running"
    /\ boot.queued
    /\ Len(providers) > 0
    /\ stored = [present |-> TRUE, value |-> JSONstringify(providers)]

\* C29: every provider of the ledger has initialFullCrates > 0 and
\* chickensPerCrate > 0 and every sale has targetFullCrates > 0.
C29_CreatedWithPositiveNumbers ==
    \A i \in DOMAIN providers :
        /\ providers[i].initialFullCrates > 0
        /\ providers[i].chickensPerCrate > 0
        /\ \A j \in DOMAIN providers[i].sales :
              providers[i].sales[j].targetFullCrates > 0

\* C30: a GET request not addressed to the AI API is answered with a
\* response, the cached one when there is one and the one of the network
\* otherwise; the cache changes only by the ok response of such a request;
\* another request is not handled and leaves the cache as it is; once the
\* worker is active the only cache is CACHE_NAME.
C30_FetchAnswersAndCaches ==
    [][sw'.phase = "active" =>
          /\ sw'.names = {CACHE_NAME}
          /\ sw.phase = "active" =>
                LET last == sw'.last IN
                /\ (last.method = "GET" /\ ~IncludesAIHost(last.url)) =>
                      /\ last.handled
                      /\ last.answer.kind = "response"
                      /\ last.cached.found =>
                            /\ last.answer.from = "cache"
                            /\ last.answer.body = last.cached.body
                      /\ ~last.cached.found => last.answer.from = "network"
                /\ sw'.held # sw.held =>
                      /\ last.handled
                      /\ last.method = "GET" /\ ~IncludesAIHost(last.url)
                      /\ last.network.settled = "response" /\ last.network.ok
                      /\ sw'.held = CachePut(sw.held, last.url,
                                             last.network.body)
                /\ (last.method # "GET" \/ IncludesAIHost(last.url)) =>
                      /\ ~last.handled
                      /\ sw'.held = sw.held]_vars
====
